---- MODULE Spec2Model ----
(***************************************************************************)
(* A model of py-spy's src/python_interpreters.rs: the version-abstracted  *)
(* accessors over the interpreter's structures and the three line-table    *)
(* decoders (classic lnotab, the 3.10 variant, the 3.11/3.12 compact       *)
(* table).  Every accessor is a single query: it is called on a view (the  *)
(* fields of one structure copied from the target process), it runs, and   *)
(* it either returns a value or panics (pc = "abort").  The decoders are   *)
(* loops; one action is one iteration of the loop.                         *)
(***************************************************************************)
EXTENDS Integers, Sequences, FiniteSets, TLC

VARIABLES
    pc,               \* "idle" | "loop" | "have_addr" | "fetched" | "done" | "abort"
    op,               \* the query in progress
    ver,              \* the python version whose bindings the view is of
    table,            \* get_line_number: the line table bytes
    arg_lasti,        \* get_line_number: the lasti argument
    first_lineno,     \* get_line_number: self.first_lineno()
    code_offset,      \* offset_of(self, &self.co_code_adaptive) of the code object
    lasti,            \* get_line_number: the local (shadowing) lasti
    i,                \* classic and 3.10 decoders: table index
    index,            \* compact decoder / read_varint: table index
    code,             \* compact decoder: opcode of the record just read
    line_number,      \* the running line number
    bytecode_address, \* the running bytecode address
    iterations,       \* get_line_number: executions of the loop body so far
    view,             \* accessors: the fields of the structure queried
    arg,              \* accessors: the argument of the query
    result            \* the value returned

vars == <<pc, op, ver, table, arg_lasti, first_lineno, code_offset, lasti, i, index,
          code, line_number, bytecode_address, iterations, view, arg, result>>

decoder_vars == <<table, arg_lasti, first_lineno, code_offset, lasti, i, index, code,
                  line_number, bytecode_address, iterations>>

----------------------------------------------------------------------------
(* Values *)

None == [some |-> FALSE]
Some(v) == [some |-> TRUE, val |-> v]
NoResult == [some |-> FALSE]
NoView == [kind |-> "none"]

\* table[k] with Rust's 0-based index
At(t, k) == t[k + 1]

RECURSIVE Pow2(_)
Pow2(n) == IF n = 0 THEN 1 ELSE 2 * Pow2(n - 1)

----------------------------------------------------------------------------
(* Bounds of the inputs *)

MaxPairs == 3
MaxLasti == 7
MaxRecords == 2

FirstLinenos == {4, 10}

\* (bytecode_delta, line_delta) byte pairs of the classic and 3.10 tables:
\* positive and negative (0xFF = -1, 0x81 = -127) line deltas, a zero bytecode
\* delta, and the 3.10 sentinel 0x80
PairSet == {<<2, 1>>, <<4, 255>>, <<2, 128>>, <<0, 2>>, <<1, 0>>, <<3, 129>>}

\* a table may end in a byte with no partner
Trailing == {<< >>, <<2>>}

RECURSIVE PairTablesOf(_)
PairTablesOf(n) ==
    IF n = 0 THEN {<< >>}
    ELSE LET shorter == PairTablesOf(n - 1)
         IN shorter \cup {t \o p : t \in {s \in shorter : Len(s) = 2 * (n - 1)}, p \in PairSet}

PairTables == {t \o e : t \in PairTablesOf(MaxPairs), e \in Trailing}

LastiValues == -1 .. MaxLasti

----------------------------------------------------------------------------
(* Initial state: no query in progress *)

Init ==
    /\ pc = "idle"
    /\ op = "none"
    /\ ver = "none"
    /\ table = << >>
    /\ arg_lasti = 0
    /\ first_lineno = 0
    /\ code_offset = 0
    /\ lasti = 0
    /\ i = 0
    /\ index = 0
    /\ code = 0
    /\ line_number = 0
    /\ bytecode_address = 0
    /\ iterations = 0
    /\ view = NoView
    /\ arg = None
    /\ result = NoResult

\* the caller has read the result (or caught the panic); the view is dropped
Return ==
    /\ pc \in {"done", "abort"}
    /\ pc' = "idle"
    /\ op' = "none"
    /\ ver' = "none"
    /\ table' = << >>
    /\ arg_lasti' = 0
    /\ first_lineno' = 0
    /\ code_offset' = 0
    /\ lasti' = 0
    /\ i' = 0
    /\ index' = 0
    /\ code' = 0
    /\ line_number' = 0
    /\ bytecode_address' = 0
    /\ iterations' = 0
    /\ view' = NoView
    /\ arg' = None
    /\ result' = NoResult

\* a panic: an out-of-range table index, or unwrap() of None
Abort ==
    /\ pc' = "abort"
    /\ result' = NoResult

----------------------------------------------------------------------------
(* Classic decoder: PythonCodeObjectImpl::get_line_number (2.7, 3.3 - 3.9) *)

\* while (i + 1) < size
PairLoopGuard(k, size) == (k + 1) < size

\* if increment >= 0x80 { increment -= 0x100 }
ClassicIncrement(b) == IF b >= 128 THEN b - 256 ELSE b

\* a decoder that stops on reaching lasti, as the compact one does
ClassicStopGE(addr, l) == addr >= l

\* if bytecode_address > lasti { break }
ClassicStop(addr, l) == addr > l

\* get_line_number as a function of its arguments
RECURSIVE classic_loop(_, _, _, _, _)
classic_loop(tbl, l, k, line, addr) ==
    IF ~PairLoopGuard(k, Len(tbl))
    THEN line
    ELSE LET a == addr + At(tbl, k)
         IN IF ClassicStop(a, l)
            THEN line
            ELSE classic_loop(tbl, l, k + 2, line + ClassicIncrement(At(tbl, k + 1)), a)

classic_get_line_number(fl, tbl, l) == classic_loop(tbl, l, 0, fl, 0)

CallClassic(fl, tbl, l) ==
    /\ pc = "idle"
    /\ pc' = "loop"
    /\ op' = "classic"
    /\ table' = tbl
    /\ arg_lasti' = l
    /\ first_lineno' = fl
    /\ lasti' = l
    /\ i' = 0
    /\ line_number' = fl
    /\ bytecode_address' = 0
    /\ iterations' = 0
    /\ UNCHANGED <<ver, code_offset, index, code, view, arg, result>>

ClassicStep ==
    /\ pc = "loop"
    /\ op = "classic"
    /\ PairLoopGuard(i, Len(table))
    /\ iterations' = iterations + 1
    /\ IF i >= Len(table)
       THEN Abort /\ UNCHANGED <<i, line_number, bytecode_address>>
       ELSE LET addr == bytecode_address + At(table, i)
            IN IF ClassicStop(addr, lasti)
               THEN /\ bytecode_address' = addr
                    /\ pc' = "done"
                    /\ result' = Some(line_number)
                    /\ UNCHANGED <<i, line_number>>
               ELSE IF i + 1 >= Len(table)
                    THEN Abort /\ UNCHANGED <<i, line_number, bytecode_address>>
                    ELSE /\ bytecode_address' = addr
                         /\ line_number' = line_number + ClassicIncrement(At(table, i + 1))
                         /\ i' = i + 2
                         /\ UNCHANGED <<pc, result>>
    /\ UNCHANGED <<op, ver, table, arg_lasti, first_lineno, code_offset, lasti, index,
                   code, view, arg>>

ClassicExit ==
    /\ pc = "loop"
    /\ op = "classic"
    /\ ~PairLoopGuard(i, Len(table))
    /\ pc' = "done"
    /\ result' = Some(line_number)
    /\ UNCHANGED <<op, ver, view, arg>>
    /\ UNCHANGED decoder_vars

----------------------------------------------------------------------------
(* 3.10 decoder: v3_10_0::PyCodeObject::get_line_number *)

\* let line_delta: i8 = transmute(table[i + 1])
AsI8(b) == IF b >= 128 THEN b - 256 ELSE b

\* if line_delta == -128 { continue }
V310Skip(line_delta) == line_delta = -128

\* a decoder whose `continue` comes before the index is advanced
V310NextIndexAfterSkip(k, line_delta) == IF line_delta = -128 THEN k ELSE k + 2

\* i += 2, before the sentinel test
V310NextIndex(k, line_delta) == k + 2

\* a decoder that stops as soon as the address reaches lasti
V310StopAtOrAfter(addr, l) == addr >= l

\* if bytecode_address > lasti { break }
V310Stop(addr, l) == addr > l

CallV310(fl, tbl, l) ==
    /\ pc = "idle"
    /\ pc' = "loop"
    /\ op' = "v3_10"
    /\ table' = tbl
    /\ arg_lasti' = l
    /\ first_lineno' = fl
    /\ lasti' = 2 * l
    /\ i' = 0
    /\ line_number' = fl
    /\ bytecode_address' = 0
    /\ iterations' = 0
    /\ UNCHANGED <<ver, code_offset, index, code, view, arg, result>>

V310Step ==
    /\ pc = "loop"
    /\ op = "v3_10"
    /\ PairLoopGuard(i, Len(table))
    /\ iterations' = iterations + 1
    /\ IF i + 1 >= Len(table)
       THEN Abort /\ UNCHANGED <<i, line_number, bytecode_address>>
       ELSE LET delta == At(table, i)
                line_delta == AsI8(At(table, i + 1))
            IN /\ i' = V310NextIndex(i, line_delta)
               /\ IF V310Skip(line_delta)
                  THEN UNCHANGED <<line_number, bytecode_address, pc, result>>
                  ELSE /\ line_number' = line_number + line_delta
                       /\ bytecode_address' = bytecode_address + delta
                       /\ IF V310Stop(bytecode_address + delta, lasti)
                          THEN /\ pc' = "done"
                               /\ result' = Some(line_number + line_delta)
                          ELSE UNCHANGED <<pc, result>>
    /\ UNCHANGED <<op, ver, table, arg_lasti, first_lineno, code_offset, lasti, index,
                   code, view, arg>>

V310Exit ==
    /\ pc = "loop"
    /\ op = "v3_10"
    /\ ~PairLoopGuard(i, Len(table))
    /\ pc' = "done"
    /\ result' = Some(line_number)
    /\ UNCHANGED <<op, ver, view, arg>>
    /\ UNCHANGED decoder_vars

NextPairs ==
    \/ /\ pc = "idle"
       /\ \E fl \in FirstLinenos, tbl \in PairTables, l \in LastiValues :
              CallClassic(fl, tbl, l)
    \/ ClassicStep
    \/ ClassicExit
    \/ /\ pc = "idle"
       /\ \E fl \in FirstLinenos, tbl \in PairTables, l \in LastiValues :
              CallV310(fl, tbl, l)
    \/ V310Step
    \/ V310Exit
    \/ Return

SpecPairs == Init /\ [][NextPairs]_vars

----------------------------------------------------------------------------
(* Varints: read_varint, read_signed_varint *)

\* an index out of the table's range: the read panics
ReadFail(idx) == [ok |-> FALSE, val |-> 0, index |-> idx]
ReadOk(v, idx) == [ok |-> TRUE, val |-> v, index |-> idx]

\* byte & 63
VarintChunk(b) == b % 64

\* byte & 64 != 0
VarintContinues(b) == (b \div 64) % 2 # 0

\* while byte & 64 != 0 { byte = table[*index]; *index += 1; shift += 6;
\*                        ret += ((byte & 63) as usize) << shift }
RECURSIVE read_varint_loop(_, _, _, _, _)
read_varint_loop(byte, idx, shift, ret, tbl) ==
    IF VarintContinues(byte)
    THEN IF idx >= Len(tbl)
         THEN ReadFail(idx)
         ELSE LET b == At(tbl, idx)
              IN read_varint_loop(b, idx + 1, shift + 6,
                                  ret + VarintChunk(b) * Pow2(shift + 6), tbl)
    ELSE ReadOk(ret, idx)

read_varint(idx, tbl) ==
    IF idx >= Len(tbl)
    THEN ReadFail(idx)
    ELSE read_varint_loop(At(tbl, idx), idx + 1, 0, VarintChunk(At(tbl, idx)), tbl)

\* a decoder that drops the sign flag without negating
read_signed_varint_unsigned(idx, tbl) ==
    LET u == read_varint(idx, tbl)
    IN IF ~u.ok THEN u ELSE ReadOk(u.val \div 2, u.index)

read_signed_varint(idx, tbl) ==
    LET u == read_varint(idx, tbl)
    IN IF ~u.ok THEN u
       ELSE IF u.val % 2 # 0
            THEN ReadOk(-(u.val \div 2), u.index)
            ELSE ReadOk(u.val \div 2, u.index)

----------------------------------------------------------------------------
(* Compact decoder: CompactCodeObjectImpl::get_line_number (3.11, 3.12) *)

\* a decoder that takes the length bits as the length
RecordLengthNoBias(byte) == byte % 8

\* let delta = ((byte & 7) as i32) + 1
RecordLength(byte) == (byte % 8) + 1

\* let code = (byte >> 3) & 15
RecordCode(byte) == (byte \div 8) % 16

\* a decoder that stops only after passing lasti, as the pair decoders do
CompactStopGT(addr, l) == addr > l

\* if bytecode_address >= lasti { break }
CompactStop(addr, l) == addr >= l

\* a decoder that takes the long form's end line for the last field
LineDeltaShortLongForm(c, idx, tbl) ==
    CASE c = 15 -> ReadOk(0, idx)
      [] c = 14 ->
            LET d == read_signed_varint(idx, tbl)
            IN IF ~d.ok THEN d
               ELSE LET e1 == read_varint(d.index, tbl)
                    IN IF ~e1.ok THEN e1
                       ELSE LET e2 == read_varint(e1.index, tbl)
                            IN IF ~e2.ok THEN e2 ELSE ReadOk(d.val, e2.index)
      [] c = 13 -> read_signed_varint(idx, tbl)
      [] c \in 10 .. 12 -> ReadOk(c - 10, idx + 2)
      [] OTHER -> ReadOk(0, idx + 1)

\* a decoder that reads the column bytes it steps over
LineDeltaReadingColumns(c, idx, tbl) ==
    CASE c = 15 -> ReadOk(0, idx)
      [] c = 14 ->
            LET d == read_signed_varint(idx, tbl)
            IN IF ~d.ok THEN d
               ELSE LET e1 == read_varint(d.index, tbl)
                    IN IF ~e1.ok THEN e1
                       ELSE LET e2 == read_varint(e1.index, tbl)
                            IN IF ~e2.ok THEN e2
                               ELSE LET e3 == read_varint(e2.index, tbl)
                                    IN IF ~e3.ok THEN e3 ELSE ReadOk(d.val, e3.index)
      [] c = 13 -> read_signed_varint(idx, tbl)
      [] c \in 10 .. 12 ->
            IF idx + 2 > Len(tbl) THEN ReadFail(Len(tbl)) ELSE ReadOk(c - 10, idx + 2)
      [] OTHER ->
            IF idx + 1 > Len(tbl) THEN ReadFail(Len(tbl)) ELSE ReadOk(0, idx + 1)

\* let line_delta = match code { ... }: the line delta and the index after
\* the record, or a panic inside read_varint
LineDelta(c, idx, tbl) ==
    CASE c = 15 -> ReadOk(0, idx)
      [] c = 14 ->
            LET d == read_signed_varint(idx, tbl)
            IN IF ~d.ok THEN d
               ELSE LET e1 == read_varint(d.index, tbl)
                    IN IF ~e1.ok THEN e1
                       ELSE LET e2 == read_varint(e1.index, tbl)
                            IN IF ~e2.ok THEN e2
                               ELSE LET e3 == read_varint(e2.index, tbl)
                                    IN IF ~e3.ok THEN e3 ELSE ReadOk(d.val, e3.index)
      [] c = 13 -> read_signed_varint(idx, tbl)
      [] c \in 10 .. 12 -> ReadOk(c - 10, idx + 2)
      [] OTHER -> ReadOk(0, idx + 1)

CallCompact(fl, tbl, l, off) ==
    /\ pc = "idle"
    /\ pc' = "loop"
    /\ op' = "compact"
    /\ table' = tbl
    /\ arg_lasti' = l
    /\ first_lineno' = fl
    /\ code_offset' = off
    /\ lasti' = l - off
    /\ index' = 0
    /\ line_number' = fl
    /\ bytecode_address' = 0
    /\ iterations' = 0
    /\ UNCHANGED <<ver, i, code, view, arg, result>>

CompactStep ==
    /\ pc = "loop"
    /\ op = "compact"
    /\ ~(index >= Len(table))
    /\ iterations' = iterations + 1
    /\ LET byte == At(table, index)
           addr == bytecode_address + RecordLength(byte) * 2
           c == RecordCode(byte)
           r == LineDelta(c, index + 1, table)
       IN IF ~r.ok
          THEN Abort /\ UNCHANGED <<index, code, line_number, bytecode_address>>
          ELSE /\ index' = r.index
               /\ code' = c
               /\ bytecode_address' = addr
               /\ line_number' = line_number + r.val
               /\ IF CompactStop(addr, lasti)
                  THEN /\ pc' = "done"
                       /\ result' = Some(line_number + r.val)
                  ELSE UNCHANGED <<pc, result>>
    /\ UNCHANGED <<op, ver, table, arg_lasti, first_lineno, code_offset, lasti, i, view,
                   arg>>

CompactExit ==
    /\ pc = "loop"
    /\ op = "compact"
    /\ index >= Len(table)
    /\ pc' = "done"
    /\ result' = Some(line_number)
    /\ UNCHANGED <<op, ver, view, arg>>
    /\ UNCHANGED decoder_vars

\* read_signed_varint called on its own, from index 0
CallReadSignedVarint(tbl) ==
    /\ pc = "idle"
    /\ op' = "read_signed_varint"
    /\ table' = tbl
    /\ LET r == read_signed_varint(0, tbl)
       IN IF ~r.ok
          THEN Abort /\ UNCHANGED index
          ELSE /\ pc' = "done"
               /\ index' = r.index
               /\ result' = Some(r.val)
    /\ UNCHANGED <<ver, arg_lasti, first_lineno, code_offset, lasti, i, code,
                   line_number, bytecode_address, iterations, view, arg>>

(* Inputs of the compact decoder *)

\* offset_of(self, &self.co_code_adaptive): fixed by the generated bindings
\* (crate::python_bindings); the layouts of a 64-bit build
CodeAdaptiveOffsets == {184, 192}

\* records of every opcode class: no-line (15), long (14, with one- and
\* two-byte varints), no-column (13, positive, two-byte negative, and with bit
\* 7 of the first byte clear), one-line forms (10, 11, 12) and short (0)
CompactRecords ==
    { <<248>>,
      <<240, 2, 1, 0, 0>>,
      <<241, 3, 65, 1, 0, 0>>,
      <<232, 4>>,
      <<232, 67, 1>>,
      <<104, 2>>,
      <<208, 1, 2>>,
      <<217, 4, 8>>,
      <<224, 1, 2>>,
      <<128, 5>> }

RECURSIVE RecordTablesOf(_)
RecordTablesOf(n) ==
    IF n = 0 THEN {<< >>}
    ELSE {t \o r : t \in RecordTablesOf(n - 1), r \in CompactRecords \cup {<< >>}}

\* every table of up to MaxRecords records, and every table cut off inside one
TruncatedRecordTables ==
    UNION {{SubSeq(t, 1, n) : n \in 0 .. Len(t)} : t \in RecordTablesOf(MaxRecords)}

\* every value of a record's first byte
FirstByteTables == {<<b, 2, 0, 0, 0>> : b \in 0 .. 255}

\* tests::test_py3_11_line_numbers
RegressionTable ==
    <<128, 0, 221, 4, 8, 132, 74, 136, 118, 209, 4, 22, 212, 4, 22, 208, 4, 22, 208, 4,
      22, 208, 4, 22>>
RegressionFirstLineno == 4
RegressionLasti == 214

CompactTables == TruncatedRecordTables \cup FirstByteTables \cup {RegressionTable}

CompactLastis(off) == {off + k : k \in LastiValues} \cup {RegressionLasti}

(* Inputs of read_signed_varint called on its own *)

MaxVarint == 40

\* the values around every change of the encoding's length, up to 2^30 - 1
VarintValues ==
    LET edges == {31, 32, 2047, 2048, 131071, 131072, 8388607, 8388608,
                  536870911, 536870912, 1073741823}
    IN (-MaxVarint .. MaxVarint) \cup edges \cup {-e : e \in edges}

\* the encoding: 6-bit chunks, least significant first, bit 6 set on every
\* byte but the last
RECURSIVE EncodeUnsigned(_)
EncodeUnsigned(u) ==
    IF u < 64 THEN <<u>> ELSE <<64 + (u % 64)>> \o EncodeUnsigned(u \div 64)

\* the magnitude shifted left by one, the low bit set for a negative value
EncodeSigned(v) == EncodeUnsigned(IF v < 0 THEN 2 * (-v) + 1 ELSE 2 * v)

VarintTables == {EncodeSigned(v) : v \in VarintValues}

NextCompact ==
    \/ /\ pc = "idle"
       /\ \E fl \in FirstLinenos, tbl \in CompactTables, off \in CodeAdaptiveOffsets :
             \E l \in CompactLastis(off) : CallCompact(fl, tbl, l, off)
    \/ CompactStep
    \/ CompactExit
    \/ /\ pc = "idle"
       /\ \E tbl \in VarintTables : CallReadSignedVarint(tbl)
    \/ Return

SpecCompact == Init /\ [][NextCompact]_vars

----------------------------------------------------------------------------
(* The accessors over the structures of each version *)

\* the versions with bindings: v2_7_15 ... v3_12_0 (v3_5_5 also serves 3.4)
Versions == {"2.7", "3.3", "3.5", "3.6", "3.7", "3.8", "3.9", "3.10", "3.11", "3.12"}

\* PythonCommonImpl!(...) is instantiated for these
CommonVersions == {"2.7", "3.3", "3.5", "3.6", "3.7", "3.8", "3.9", "3.10"}

\* Python3Impl!(...) is instantiated for these
Python3Versions == Versions \ {"2.7"}

\* addresses in the target process
Addrs == {0, 4096, 4160, 4288, 8192}

\* offset_of(&cframe, &cframe.current_frame) of a default _PyCFrame: fixed by
\* the generated bindings (3.11 has a use_tracing byte before the pointer)
CurrentFrameOffset(v) == IF v = "3.11" THEN 8 ELSE 0

\* std::mem::size_of::<PyASCIIObject>(), fixed by the generated bindings
SizeOfPyASCIIObject(v) == IF v = "3.12" THEN 40 ELSE 48

\* std::mem::size_of::<PyCompactUnicodeObject>(), fixed by the generated bindings
SizeOfPyCompactUnicodeObject(v) == IF v = "3.12" THEN 56 ELSE 72

Panic == [ok |-> FALSE, val |-> 0]
Value(x) == [ok |-> TRUE, val |-> x]

(* InterpreterState::gil_locked *)

gil_locked_common(self) == None
gil_locked_v3_12(self) == Some(self.gil_locked_value # 0)
gil_locked_v3_11(self) == None

\* an implementation that reports "not locked" where the field is absent
gil_locked_or_false(v, self) ==
    CASE v = "3.12" -> gil_locked_v3_12(self)
      [] OTHER -> Some(FALSE)

gil_locked(v, self) ==
    CASE v = "3.12" -> gil_locked_v3_12(self)
      [] v = "3.11" -> gil_locked_v3_11(self)
      [] OTHER -> gil_locked_common(self)

(* ThreadState::native_thread_id, frame_address, frame *)

native_thread_id_common(self) == None
native_thread_id_v3_12(self) == Some(self.native_thread_id)
native_thread_id_v3_11(self) == Some(self.native_thread_id)

native_thread_id(v, self) ==
    CASE v = "3.12" -> native_thread_id_v3_12(self)
      [] v = "3.11" -> native_thread_id_v3_11(self)
      [] OTHER -> native_thread_id_common(self)

frame_address_common(self) == None
frame_address_v3_12(self) == Some(self.cframe + CurrentFrameOffset("3.12"))
frame_address_v3_11(self) == Some(self.cframe + CurrentFrameOffset("3.11"))

frame_address(v, self) ==
    CASE v = "3.12" -> frame_address_v3_12(self)
      [] v = "3.11" -> frame_address_v3_11(self)
      [] OTHER -> frame_address_common(self)

frame_common(self, addr) == Value(self.frame)

\* an accessor that falls back to the address of the cframe
frame_v3_11_or_cframe(self, addr) == IF addr.some THEN Value(addr.val) ELSE Value(self.cframe)

\* addr.unwrap() as *mut _
frame_v3_12(self, addr) == IF addr.some THEN Value(addr.val) ELSE Panic
frame_v3_11(self, addr) == IF addr.some THEN Value(addr.val) ELSE Panic

frame(v, self, addr) ==
    CASE v = "3.12" -> frame_v3_12(self, addr)
      [] v = "3.11" -> frame_v3_11(self, addr)
      [] OTHER -> frame_common(self, addr)

(* FrameObject::lasti *)

lasti_common(self) == self.f_lasti

\* an accessor that measures from the bytecode array
lasti_from_bytecode(self, off) == self.prev_instr - (self.f_code + off)

\* (self.prev_instr as *const u8).offset_from(self.f_code as *const u8) as i32
lasti_v3_12(self, off) == self.prev_instr - self.f_code
lasti_v3_11(self, off) == self.prev_instr - self.f_code

frame_lasti(v, self, off) ==
    CASE v = "3.12" -> lasti_v3_12(self, off)
      [] v = "3.11" -> lasti_v3_11(self, off)
      [] OTHER -> lasti_common(self)

(* StringObject::address of PyUnicodeObject *)

\* an accessor that tests the ASCII flag first
unicode_address_ascii_first(v, self, base) ==
    IF self.ascii = 1
    THEN base + SizeOfPyASCIIObject(v)
    ELSE IF self.compact = 0
         THEN self.any
         ELSE base + SizeOfPyCompactUnicodeObject(v)

unicode_address(v, self, base) ==
    IF self.compact = 0
    THEN self.any
    ELSE IF self.ascii = 1
         THEN base + SizeOfPyASCIIObject(v)
         ELSE base + SizeOfPyCompactUnicodeObject(v)

(* The views *)

InterpreterStates(v) ==
    IF v = "3.12" THEN [gil_locked_value : {0, 1, 2}] ELSE {[tstate_head |-> 4096]}

ThreadStates(v) ==
    IF v \in CommonVersions
    THEN [frame : Addrs, thread_id : {1}]
    ELSE [cframe : Addrs, thread_id : {1}, native_thread_id : {0, 4242}]

Frames(v) ==
    IF v \in CommonVersions
    THEN [f_code : {4096}, f_lasti : LastiValues]
    ELSE [f_code : Addrs, prev_instr : Addrs]

UnicodeObjects == [compact : {0, 1}, ascii : {0, 1}, any : Addrs]

\* a query that returns at once
Answer(name, v, self, x, r) ==
    /\ pc = "idle"
    /\ pc' = "done"
    /\ op' = name
    /\ ver' = v
    /\ view' = self
    /\ arg' = x
    /\ result' = r

CallGilLocked(v, self) ==
    /\ Answer("gil_locked", v, self, None, gil_locked(v, self))
    /\ UNCHANGED decoder_vars

CallNativeThreadId(v, self) ==
    /\ Answer("native_thread_id", v, self, None, native_thread_id(v, self))
    /\ UNCHANGED decoder_vars

CallLasti(v, self, off) ==
    /\ Answer("lasti", v, self, None, Some(frame_lasti(v, self, off)))
    /\ code_offset' = off
    /\ UNCHANGED <<table, arg_lasti, first_lineno, lasti, i, index, code, line_number,
                   bytecode_address, iterations>>

CallStringAddress(v, self, base) ==
    /\ Answer("address", v, self, Some(base), Some(unicode_address(v, self, base)))
    /\ UNCHANGED decoder_vars

\* frame(x) with any x
CallFrame(v, self, x) ==
    /\ pc = "idle"
    /\ op' = "frame"
    /\ ver' = v
    /\ view' = self
    /\ arg' = x
    /\ LET r == frame(v, self, x)
       IN IF r.ok THEN pc' = "done" /\ result' = Some(r.val) ELSE Abort
    /\ UNCHANGED decoder_vars

\* the protocol of a stack walker: a = frame_address() ...
CallFrameAddress(v, self) ==
    /\ pc = "idle"
    /\ pc' = "have_addr"
    /\ op' = "frame_protocol"
    /\ ver' = v
    /\ view' = self
    /\ result' = frame_address(v, self)
    /\ UNCHANGED arg
    /\ UNCHANGED decoder_vars

\* ... the walker reads the pointer stored at a from the target process, when
\* there is an a ...
FetchFrameAddress(p) ==
    /\ pc = "have_addr"
    /\ pc' = "fetched"
    /\ arg' = IF result.some THEN Some(p) ELSE None
    /\ UNCHANGED <<op, ver, view, result>>
    /\ UNCHANGED decoder_vars

\* ... and hands it back: p = frame(x)
CallFrameFetched ==
    /\ pc = "fetched"
    /\ LET r == frame(ver, view, arg)
       IN IF r.ok THEN pc' = "done" /\ result' = Some(r.val) ELSE Abort
    /\ UNCHANGED <<op, ver, view, arg>>
    /\ UNCHANGED decoder_vars

NextViews ==
    \/ /\ pc = "idle"
       /\ \E v \in Versions : \E self \in InterpreterStates(v) : CallGilLocked(v, self)
    \/ /\ pc = "idle"
       /\ \E v \in Versions : \E self \in ThreadStates(v) : CallNativeThreadId(v, self)
    \/ /\ pc = "idle"
       /\ \E v \in Versions, off \in CodeAdaptiveOffsets :
             \E self \in Frames(v) : CallLasti(v, self, off)
    \/ /\ pc = "idle"
       /\ \E v \in Python3Versions, self \in UnicodeObjects, base \in Addrs :
             CallStringAddress(v, self, base)
    \/ /\ pc = "idle"
       /\ \E v \in Versions, x \in {None} \cup {Some(a) : a \in Addrs} :
             \E self \in ThreadStates(v) : CallFrame(v, self, x)
    \/ /\ pc = "idle"
       /\ \E v \in Versions : \E self \in ThreadStates(v) : CallFrameAddress(v, self)
    \/ \E p \in Addrs : FetchFrameAddress(p)
    \/ CallFrameFetched
    \/ Return

SpecViews == Init /\ [][NextViews]_vars

Next == NextPairs \/ NextCompact \/ NextViews

Spec == Init /\ [][Next]_vars

----------------------------------------------------------------------------
(* The pair tables as the format describes them *)

NumPairs(t) == Len(t) \div 2
PairAddr(t, k) == t[2 * k - 1]
PairLine(t, k) == t[2 * k]
SignedByte(b) == IF b >= 128 THEN b - 256 ELSE b

RECURSIVE SumAddr(_, _)
SumAddr(t, k) == IF k = 0 THEN 0 ELSE SumAddr(t, k - 1) + PairAddr(t, k)

RECURSIVE SumLine(_, _)
SumLine(t, k) == IF k = 0 THEN 0 ELSE SumLine(t, k - 1) + SignedByte(PairLine(t, k))

\* the pairs whose cumulative bytecode address, the pair included, is <= l
\* (the address never decreases, so they are the leading ones)
PairsAtOrBefore(t, l) == {k \in 1 .. NumPairs(t) : SumAddr(t, k) <= l}

ClassicExpected(fl, t, l) == fl + SumLine(t, Cardinality(PairsAtOrBefore(t, l)))

ClassicReturned == op = "classic" /\ pc = "done"

\* C2: the classic decoder returns first_lineno plus the signed line deltas of
\* exactly the leading pairs whose cumulative bytecode address is <= lasti; an
\* empty table returns first_lineno, and pairs (2,1),(4,-1) from line 10 give
\* 10 for lasti 1, 11 for lasti 2 and 10 for lasti 7.
C2_ClassicLeadingPairs ==
    ClassicReturned =>
        /\ result = Some(ClassicExpected(first_lineno, table, arg_lasti))
        /\ table = << >> => result = Some(first_lineno)
        /\ (table = <<2, 1, 4, 255>> /\ first_lineno = 10) =>
              /\ arg_lasti = 1 => result = Some(10)
              /\ arg_lasti = 2 => result = Some(11)
              /\ arg_lasti = 7 => result = Some(10)

C2_Witness ==
    /\ ClassicReturned
    /\ table = <<2, 1, 4, 255>>
    /\ first_lineno = 10
    /\ arg_lasti = 7
    /\ result = Some(10)

\* C3: in the 3.10 decoder a pair whose line-delta byte is 0x80 leaves the
\* running line number unchanged and still advances the running bytecode
\* address by the pair's bytecode-delta byte.
C3_SentinelAdvancesAddress ==
    [][(/\ op = "v3_10"
        /\ pc = "loop"
        /\ PairLoopGuard(i, Len(table))
        /\ At(table, i + 1) = 128
        /\ i' = i + 2)
       => (/\ line_number' = line_number
           /\ bytecode_address' = bytecode_address + At(table, i))]_vars

----------------------------------------------------------------------------
(* The compact table as the format describes it *)

Min(S) == CHOOSE x \in S : \A y \in S : x <= y

\* a varint starting at pos (0-based) ends with the first byte whose bit 6 is
\* clear; 0 when the table ends before that
VarintBytes(t, pos) ==
    LET ends == {e \in pos .. Len(t) - 1 : (At(t, e) \div 64) % 2 = 0}
    IN IF ends = {} THEN 0 ELSE Min(ends) - pos + 1

RECURSIVE VarintValue(_, _, _)
VarintValue(t, pos, n) ==
    IF n = 0 THEN 0 ELSE (At(t, pos) % 64) + 64 * VarintValue(t, pos + 1, n - 1)

SignedOf(u) == IF u % 2 = 1 THEN -(u \div 2) ELSE u \div 2

\* the bytes after the first byte (len) and the line delta of a record whose
\* opcode is o and whose payload starts at pos; ok is FALSE when a varint of
\* the payload is cut off by the end of the table
RecordRule(o, t, pos) ==
    CASE o = 15 -> [ok |-> TRUE, len |-> 0, delta |-> 0]
      [] o = 14 ->
            LET n1 == VarintBytes(t, pos)
                n2 == VarintBytes(t, pos + n1)
                n3 == VarintBytes(t, pos + n1 + n2)
                n4 == VarintBytes(t, pos + n1 + n2 + n3)
            IN IF n1 = 0 \/ n2 = 0 \/ n3 = 0 \/ n4 = 0
               THEN [ok |-> FALSE, len |-> 0, delta |-> 0]
               ELSE [ok |-> TRUE, len |-> n1 + n2 + n3 + n4,
                     delta |-> SignedOf(VarintValue(t, pos, n1))]
      [] o = 13 ->
            LET n1 == VarintBytes(t, pos)
            IN IF n1 = 0
               THEN [ok |-> FALSE, len |-> 0, delta |-> 0]
               ELSE [ok |-> TRUE, len |-> n1, delta |-> SignedOf(VarintValue(t, pos, n1))]
      [] o \in {10, 11, 12} -> [ok |-> TRUE, len |-> 2, delta |-> o - 10]
      [] o \in 0 .. 9 -> [ok |-> TRUE, len |-> 1, delta |-> 0]

\* bits 3 to 6 of the first byte
OpcodeBits(b) == (b \div 8) % 16

\* the high four bits of the first byte
HighNibble(b) == b \div 16

AddressAdvance(b) == 2 * ((b % 8) + 1)

\* the records of a table, in table order, up to the first one cut off
RECURSIVE RecordsFrom(_, _)
RecordsFrom(t, idx) ==
    IF idx >= Len(t) THEN << >>
    ELSE LET r == RecordRule(OpcodeBits(At(t, idx)), t, idx + 1)
         IN IF ~r.ok THEN << >>
            ELSE <<[addr |-> AddressAdvance(At(t, idx)), delta |-> r.delta]>>
                 \o RecordsFrom(t, idx + 1 + r.len)

RECURSIVE CumAddr(_, _)
CumAddr(rs, k) == IF k = 0 THEN 0 ELSE CumAddr(rs, k - 1) + rs[k].addr

RECURSIVE CumDelta(_, _)
CumDelta(rs, k) == IF k = 0 THEN 0 ELSE CumDelta(rs, k - 1) + rs[k].delta

\* the number of records processed: up to and including the first whose
\* cumulative address is >= L, or all of them
ProcessedRecords(rs, L) ==
    LET hits == {k \in 1 .. Len(rs) : CumAddr(rs, k) >= L}
    IN IF hits = {} THEN Len(rs) ELSE Min(hits)

CompactExpected(fl, t, L) ==
    LET rs == RecordsFrom(t, 0) IN fl + CumDelta(rs, ProcessedRecords(rs, L))

CompactReturned == op = "compact" /\ pc = "done"

\* C1: with L = lasti minus the offset of the bytecode array, the compact
\* decoder returns first_lineno plus the line deltas of the records up to and
\* including the first one whose cumulative bytecode address is >= L (all the
\* records when none is); the regression table with first_lineno 4 and lasti
\* 214 gives line 5.
C1_CompactStopsAtOrAfter ==
    CompactReturned =>
        /\ lasti = arg_lasti - code_offset
        /\ result = Some(CompactExpected(first_lineno, table, arg_lasti - code_offset))
        /\ (/\ table = RegressionTable
            /\ first_lineno = RegressionFirstLineno
            /\ arg_lasti = RegressionLasti) => result = Some(5)

C1_Witness ==
    /\ CompactReturned
    /\ table = RegressionTable
    /\ first_lineno = RegressionFirstLineno
    /\ arg_lasti = RegressionLasti
    /\ code_offset = 184
    /\ bytecode_address = 30
    /\ result = Some(5)

\* one record has been decoded without a panic
RecordDecoded ==
    /\ op = "compact"
    /\ pc = "loop"
    /\ index < Len(table)
    /\ pc' \in {"loop", "done"}

\* C4: the opcode of a record determines its line delta and the bytes consumed
\* after the first byte (15: delta 0, none; 14: a signed varint, then three
\* varints discarded; 13: a signed varint; 10, 11, 12: delta 0, 1, 2 and two
\* bytes; 0 to 9: delta 0 and one byte), and the next record starts right
\* after the consumed bytes.
C4_RecordDecoding ==
    [][RecordDecoded =>
        LET r == RecordRule(code', table, index + 1)
        IN /\ r.ok
           /\ index' = index + 1 + r.len
           /\ line_number' = line_number + r.delta]_vars

C4_Witness ==
    /\ op = "compact"
    /\ pc \in {"loop", "done"}
    /\ Len(table) >= 6
    /\ SubSeq(table, 1, 6) = <<241, 3, 65, 1, 0, 0>>
    /\ code = 14
    /\ index = 6
    /\ line_number = first_lineno - 1

\* C5 as stated: the bytecode address advances by 2 x ((low 3 bits) + 1) and
\* the opcode that selects the line-delta rule is the high 4 bits of the
\* record's first byte.
C5_OpcodeIsHighNibble ==
    [][RecordDecoded =>
        LET b == At(table, index)
            r == RecordRule(HighNibble(b), table, index + 1)
        IN /\ bytecode_address' = bytecode_address + AddressAdvance(b)
           /\ r.ok
           /\ index' = index + 1 + r.len
           /\ line_number' = line_number + r.delta]_vars

\* C5 amended: the bytecode address advances by 2 x ((low 3 bits) + 1) and
\* the opcode that selects the line-delta rule is bits 3 to 6 of the record's
\* first byte, (b >> 3) & 15; bit 7 takes no part.
C5_OpcodeIsBits3To6 ==
    [][RecordDecoded =>
        LET b == At(table, index)
            r == RecordRule(OpcodeBits(b), table, index + 1)
        IN /\ bytecode_address' = bytecode_address + AddressAdvance(b)
           /\ code' = OpcodeBits(b)
           /\ r.ok
           /\ index' = index + 1 + r.len
           /\ line_number' = line_number + r.delta]_vars

\* a no-column record (opcode 13) whose first byte has bit 7 clear
C5_Witness ==
    /\ op = "compact"
    /\ pc \in {"loop", "done"}
    /\ table = <<104, 2>>
    /\ index = 2
    /\ code = 13
    /\ bytecode_address = 2
    /\ line_number = first_lineno + 1

VarintReturned == op = "read_signed_varint" /\ pc = "done"

\* C6: decoding the encoding of v with read_signed_varint from index 0 returns
\* v and leaves the index at the length of the encoding.
C6_SignedVarintRoundTrip ==
    /\ op = "read_signed_varint" => pc = "done"
    /\ \A v \in VarintValues :
          (VarintReturned /\ table = EncodeSigned(v)) =>
              /\ result = Some(v)
              /\ index = Len(table)

\* -(2^30 - 1), six bytes long
C6_Witness ==
    /\ VarintReturned
    /\ table = EncodeSigned(-1073741823)
    /\ Len(table) = 6
    /\ index = 6
    /\ result = Some(-1073741823)

----------------------------------------------------------------------------
(* The accessors' contracts *)

CFrameVersions == {"3.11", "3.12"}

IsNone(r) == ~r.some
IsSome(r, x) == r.some /\ r.val = x

LastiReturned == op = "lasti" /\ pc = "done" /\ ver \in CFrameVersions

\* C7 as stated: on 3.11 and 3.12 lasti() returns prev_instr minus the address
\* of the code object's adaptive bytecode array.
C7_LastiFromBytecodeArray ==
    LastiReturned => IsSome(result, view.prev_instr - (view.f_code + code_offset))

\* C7 amended: on 3.11 and 3.12 lasti() returns prev_instr minus the address
\* of the code object itself; the offset of the bytecode array within the code
\* object is not subtracted by lasti().
C7_LastiFromCodeObject ==
    LastiReturned => IsSome(result, view.prev_instr - view.f_code)

C7_Witness ==
    /\ LastiReturned
    /\ ver = "3.11"
    /\ view.f_code = 4096
    /\ view.prev_instr = 4288
    /\ code_offset = 184
    /\ IsSome(result, 192)

AddressReturned == op = "address" /\ pc = "done"

\* C8: address(base) is the data union's `any` slot for a string that is not
\* compact (ASCII or not, whatever base is), base + size of the ASCII header
\* for a compact ASCII string, and base + size of the larger compact-unicode
\* header for a compact string that is not ASCII.
C8_StringAddressCases ==
    /\ op = "address" => pc = "done"
    /\ AddressReturned =>
          /\ ver \in Python3Versions
          /\ SizeOfPyASCIIObject(ver) < SizeOfPyCompactUnicodeObject(ver)
          /\ view.compact = 0 => IsSome(result, view.any)
          /\ (view.compact = 1 /\ view.ascii = 1) =>
                IsSome(result, arg.val + SizeOfPyASCIIObject(ver))
          /\ (view.compact = 1 /\ view.ascii = 0) =>
                IsSome(result, arg.val + SizeOfPyCompactUnicodeObject(ver))

\* a string that is ASCII and not compact
C8_Witness ==
    /\ AddressReturned
    /\ view.compact = 0
    /\ view.ascii = 1
    /\ view.any = 8192
    /\ arg = Some(4096)
    /\ IsSome(result, 8192)

\* C9: gil_locked() is unknown before 3.12 and (locked value # 0) on 3.12;
\* native_thread_id() is unknown before 3.11 and the id on 3.11 and 3.12;
\* neither fails.
C9_AbsentFieldsUnknown ==
    /\ op \in {"gil_locked", "native_thread_id"} => pc = "done"
    /\ op = "gil_locked" =>
          IF ver = "3.12"
          THEN IsSome(result, view.gil_locked_value # 0)
          ELSE IsNone(result)
    /\ op = "native_thread_id" =>
          IF ver \in {"3.11", "3.12"}
          THEN IsSome(result, view.native_thread_id)
          ELSE IsNone(result)

C9_Witness ==
    /\ op = "gil_locked"
    /\ pc = "done"
    /\ ver = "3.11"
    /\ IsNone(result)

\* C10: a = frame_address(); p = frame(x), with x None when a is None and
\* otherwise Some(the pointer fetched at a), never aborts; up to 3.10 a is
\* None and frame(x) is the stored frame pointer for any x; on 3.11 and 3.12 a
\* is Some(cframe + offset of current_frame) and frame(Some(v)) is v, while
\* frame(None) aborts.
C10_FrameAddressProtocol ==
    /\ op = "frame_protocol" => pc # "abort"
    /\ (op = "frame_protocol" /\ pc = "have_addr") =>
          IF ver \in CFrameVersions
          THEN IsSome(result, view.cframe + CurrentFrameOffset(ver))
          ELSE IsNone(result)
    /\ (op = "frame_protocol" /\ pc = "fetched") => (arg.some <=> ver \in CFrameVersions)
    /\ (op \in {"frame", "frame_protocol"} /\ pc = "done") =>
          IF ver \in CFrameVersions
          THEN arg.some /\ IsSome(result, arg.val)
          ELSE IsSome(result, view.frame)
    /\ op = "frame" => (pc = "abort" <=> (ver \in CFrameVersions /\ ~arg.some))

C10_Witness ==
    /\ op = "frame_protocol"
    /\ pc = "done"
    /\ ver = "3.11"
    /\ view.cframe = 4096
    /\ arg = Some(8192)
    /\ IsSome(result, 8192)

----------------------------------------------------------------------------
(* The 3.10 decoder against the classic one *)

V310Returned == op = "v3_10" /\ pc = "done"

\* the pairs the 3.10 loop does not skip
NonSentinelPairs(t) == {k \in 1 .. NumPairs(t) : PairLine(t, k) # 128}

\* the bytecode deltas, and the line deltas, of the non-skipped pairs among
\* the first k: the address and the line the loop has accumulated after them
RECURSIVE AccumulatedAddr(_, _)
AccumulatedAddr(t, k) ==
    IF k = 0 THEN 0
    ELSE AccumulatedAddr(t, k - 1)
         + (IF k \in NonSentinelPairs(t) THEN PairAddr(t, k) ELSE 0)

RECURSIVE AccumulatedLine(_, _)
AccumulatedLine(t, k) ==
    IF k = 0 THEN 0
    ELSE AccumulatedLine(t, k - 1)
         + (IF k \in NonSentinelPairs(t) THEN SignedByte(PairLine(t, k)) ELSE 0)

\* the non-skipped pairs whose accumulated address is strictly greater than L
CrossingPairs(t, L) == {k \in NonSentinelPairs(t) : AccumulatedAddr(t, k) > L}

V310Expected(fl, t, L) ==
    fl + AccumulatedLine(t, IF CrossingPairs(t, L) = {}
                            THEN NumPairs(t)
                            ELSE Min(CrossingPairs(t, L)))

\* C11: the 3.10 decoder adds a non-sentinel pair's line delta before it
\* accumulates and tests the pair's bytecode delta, so it returns first_lineno
\* plus the line deltas of the non-sentinel pairs up to and including the first
\* one whose accumulated address is strictly greater than 2 x lasti (all of
\* them if none is).  On a table without a 0x80 line-delta byte that is the
\* classic decoder's line for 2 x lasti plus the crossing pair's line delta,
\* hence a different line whenever that delta is not zero: table (2,1) from
\* line 10 with lasti 0 gives 11 where the classic decoder gives 10.
C11_V310AddsLineBeforeStop ==
    /\ ClassicReturned =>
           result = Some(classic_get_line_number(first_lineno, table, arg_lasti))
    /\ V310Returned =>
           LET L == 2 * arg_lasti
               classic == classic_get_line_number(first_lineno, table, L)
               crossing == CrossingPairs(table, L)
           IN /\ result = Some(V310Expected(first_lineno, table, L))
              /\ (NonSentinelPairs(table) = 1 .. NumPairs(table) /\ crossing # {}) =>
                    LET line_delta == SignedByte(PairLine(table, Min(crossing)))
                    IN /\ result = Some(classic + line_delta)
                       /\ line_delta # 0 => result # Some(classic)
              /\ (table = <<2, 1>> /\ first_lineno = 10 /\ arg_lasti = 0) =>
                    /\ result = Some(11)
                    /\ classic = 10

C11_Witness ==
    /\ V310Returned
    /\ table = <<2, 1, 4, 255>>
    /\ first_lineno = 10
    /\ arg_lasti = 1
    /\ result = Some(10)
    /\ classic_get_line_number(10, table, 2) = 11

----------------------------------------------------------------------------
(* Reads of the table *)

\* the table without a trailing unpaired byte
WholePairs(t) == SubSeq(t, 1, 2 * NumPairs(t))

\* the compact decoder has stepped over column bytes the table does not have
ColumnsMissing == op = "compact" /\ pc \in {"loop", "done"} /\ index > Len(table)

\* C12: the classic and 3.10 decoders never read a table index >= the table
\* length, whatever the length of the table, and a trailing unpaired byte has
\* no effect on the result.  The compact decoder reads past the end, which
\* aborts the query, only inside a varint of the payload of an opcode 13 or 14
\* record (the payload starts at the end of the table, or the last byte of the
\* table has continuation bit 6 set); a record of opcode 0 to 12 whose column
\* bytes are missing is stepped over without a read, and the decoder returns
\* the line number with that record's delta applied.
C12_TableBounds ==
    /\ op \in {"classic", "v3_10"} =>
          /\ pc # "abort"
          /\ i % 2 = 0
          /\ i <= 2 * NumPairs(table)
    /\ ClassicReturned =>
          result = Some(classic_get_line_number(first_lineno, WholePairs(table), arg_lasti))
    /\ V310Returned =>
          result = Some(V310Expected(first_lineno, WholePairs(table), 2 * arg_lasti))
    /\ (op = "compact" /\ pc = "abort") =>
          /\ index < Len(table)
          /\ OpcodeBits(At(table, index)) \in {13, 14}
          /\ ~RecordRule(OpcodeBits(At(table, index)), table, index + 1).ok
          /\ \/ index + 1 = Len(table)
             \/ (At(table, Len(table) - 1) \div 64) % 2 = 1
             \/ OpcodeBits(At(table, index)) = 14
    /\ (op = "compact" /\ pc \in {"loop", "done"}) => index <= Len(table) + 2
    /\ ColumnsMissing =>
          LET rs == RecordsFrom(table, 0)
          IN /\ code \in 0 .. 12
             /\ line_number = first_lineno + CumDelta(rs, Len(rs))
             /\ pc = "done" => result = Some(line_number)

C12_Witness ==
    /\ ColumnsMissing
    /\ pc = "done"
    /\ table = <<217, 4>>
    /\ index = 3
    /\ result = Some(first_lineno + 1)

----------------------------------------------------------------------------
(* Termination of the three decoders *)

Decoders == {"classic", "v3_10", "compact"}

InLoop == op \in Decoders /\ pc = "loop"

\* the loop body has run once more
BodyRan == iterations' = iterations + 1

\* the loop test failed: the index has reached the end of the table
LeftAtTableEnd ==
    /\ iterations' = iterations
    /\ pc' = "done"
    /\ IF op = "compact" THEN index >= Len(table) ELSE i + 1 >= Len(table)

\* C13 as stated: each decoder finishes within one loop iteration per table
\* byte, the table index strictly increasing in every iteration (by 2 in the
\* classic and 3.10 decoders, by at least 1 in the compact one) and the loop
\* exiting once the index reaches the table length or the stop test holds.
C13_IndexIncreasesInEveryIteration ==
    [][InLoop =>
         /\ pc' \in {"loop", "done", "abort"}
         /\ iterations' <= Len(table)
         /\ BodyRan \/ LeftAtTableEnd
         /\ (BodyRan /\ pc' # "abort") =>
               IF op = "compact" THEN index' >= index + 1 ELSE i' = i + 2]_vars

\* C13, amended: each decoder finishes within one loop iteration per table
\* byte, because every iteration either leaves the loop or strictly increases
\* the table index: by 2 in the 3.10 decoder in every iteration, a skipped
\* sentinel pair included, by 2 in the classic decoder in every iteration but
\* the one whose stop test holds, which breaks with the index unchanged, and
\* by at least 1 in the compact decoder; the loop is left without running its
\* body only when the index has reached the table length.
C13_IterationsBounded ==
    [][InLoop =>
         /\ pc' \in {"loop", "done", "abort"}
         /\ iterations' <= Len(table)
         /\ BodyRan \/ LeftAtTableEnd
         /\ pc' = "loop" =>
               /\ BodyRan
               /\ IF op = "compact" THEN index' >= index + 1 ELSE i' = i + 2
               /\ IF op = "compact" THEN index < Len(table) ELSE i' <= Len(table)
         /\ (BodyRan /\ op = "v3_10") => i' = i + 2
         /\ (BodyRan /\ op = "compact" /\ pc' = "done") => index' >= index + 1
         /\ (BodyRan /\ op = "classic" /\ pc' = "done") =>
               /\ i' = i
               /\ ClassicStop(bytecode_address', lasti)]_vars

C13_Witness ==
    /\ ClassicReturned
    /\ table = <<2, 1, 4, 255>>
    /\ arg_lasti = 2
    /\ i = 2
    /\ iterations = 2
    /\ iterations = NumPairs(table)

====
